---- MODULE Spec2Model ----
(***************************************************************************)
(* heliocron: the event-driven wait scheduler (subcommands::wait,          *)
(* utils::wait, sleep::sleep_until) and the event-time resolver            *)
(* (calc::SolarCalculations).                                              *)
(*                                                                         *)
(* Times are integers counted in ticks, Res ticks to the second, so that   *)
(* the sub-second part of a clock reading exists in the model.  Event      *)
(* times and offsets are whole seconds, as in the program (NaiveTime       *)
(* from_hms, an offset parsed from HH:MM:SS).                              *)
(***************************************************************************)
EXTENDS Integers, Sequences, FiniteSets, TLC

\* ---------------------------------------------------------------- bounds
\* clock ticks per second
Res == 2
\* event times of the wait: 1..MaxEventSecs seconds
MaxEventSecs == 1
\* offsets of the wait: -MaxOffsetSecs..MaxOffsetSecs seconds
MaxOffsetSecs == 1
\* seconds of wall clock explored past the latest wake time, and again past
\* the tolerance
SlackSecs == 1
\* a short forward jump of the wall clock is 2..MaxJumpTicks ticks
MaxJumpTicks == 3

\* steps the process can take between two ticks of the steady clock
StepsPerTick == 6

\* floats: bits after the binary point, bits of the significand, and the
\* number of parts of the day the float inputs are drawn around
FracBits == 24
Precision == 20
FloatParts == 200

\* ------------------------------------------------------- program constants
\* subcommands.rs: "if missed_by > 30"
Tolerance == 30
\* traits.rs: seconds of a day
SecondsPerDay == 86400

\* Option<T>: None is the empty sequence, Some(x) the one-element sequence
None == << >>
Some(x) == << x >>
Unwrap(o) == o[1]

\* The clock values the model explores: every tick up to NearClock (all the
\* wake times and SlackSecs more), and every tick from FarClock (a suspension
\* of the length of the tolerance) to MaxClock.
NearClock == (MaxEventSecs + MaxOffsetSecs + SlackSecs) * Res
FarClock == Tolerance * Res
MaxClock == FarClock + NearClock

\* ------------------------------------------------------------------ state
VARIABLES
    clock,            \* CLOCK_REALTIME, in ticks
    pc,               \* position of the wait in the code
    event_time,       \* solar_calculations.event_time(event).0, in ticks
    offset,           \* the signed offset, in ticks
    run_missed_task,  \* --run-missed-event
    wait_until,       \* datetime + offset, in ticks
    local_time,       \* utils::wait: Local::now()
    seconds_to_sleep, \* sleep_until: (time - currtime).num_seconds()
    timer_state,      \* the POSIX timer: "none", "created", "armed", "expired", "leaked"
    its_value,        \* its.it_value of the armed timer, in ticks (absolute)
    alarm_registered, \* signal(SignalKind::alarm()) is listening
    alarm_pending,    \* a SIGALRM was delivered and not yet received
    now,              \* subcommands::wait: chrono::Utc::now() after waking
    missed_by,        \* subcommands::wait: (now - wait_until).num_seconds()
    outcome,          \* result of the wait
    suspended,        \* history: alarm.recv().await was reached
    timers_created,   \* history: a timer_create succeeded
    early_wakeup,     \* history: recv returned while clock < wait_until
    clock_was_read,   \* history: the wait read the clock
    interrupted_at,   \* history: where the user interrupt hit, or "never"
    \* SolarCalculations (calc.rs)
    date,                 \* local calendar day of self.date, as a day number
    utc_offset,           \* self.date.offset(), seconds east of UTC
    latitude,             \* coordinates.latitude, in thousandths of a degree
    longitude,            \* coordinates.longitude, in degrees
    solar_declination,    \* in thousandths of a degree
    solar_noon_fraction,  \* in ticks of the day (a day is 86400 * Res ticks)
    calc_pc,              \* "idle", "new", "ready" or "panicked"
    query,                \* the last call made on the calculations
    result,               \* what it returned
    \* the wait under a steady clock
    steps,                \* steps of the process since the last tick
    timers_armed          \* history: successful timer_settime calls

waitVars == << clock, pc, event_time, offset, run_missed_task, wait_until,
               local_time, seconds_to_sleep, timer_state, its_value,
               alarm_registered, alarm_pending, now, missed_by, outcome,
               suspended, timers_created, early_wakeup, clock_was_read,
               interrupted_at >>

calcVars == << date, utc_offset, latitude, longitude, solar_declination,
               solar_noon_fraction, calc_pc, query, result >>

steadyVars == << steps, timers_armed >>

vars == << waitVars, calcVars, steadyVars >>

Terminal == {"done", "killed"}

\* chrono::Duration::num_seconds: whole seconds, truncated toward zero
NumSeconds(d) == IF d >= 0 THEN d \div Res ELSE -((-d) \div Res)

\* chrono::Duration::to_std fails exactly on a negative duration
IsPastEvent_orNow(duration_to_wait) == duration_to_wait <= 0
IsPastEvent(duration_to_wait) == duration_to_wait < 0

\* sleep_until: "if seconds_to_sleep < 0 { break; }"
SleepIsOver_orZero(secs) == secs <= 0
SleepIsOver(secs) == secs < 0

\* subcommands::wait: "if missed_by > 30"
IsMissed_anyOverrun(m) == m > 0
IsMissed(m) == m > Tolerance

\* ------------------------------------------------------------------- Init
WaitInit ==
    /\ clock = 0
    /\ pc = "start"
    /\ event_time \in {None} \cup {Some(s * Res) : s \in 1..MaxEventSecs}
    /\ offset \in {s * Res : s \in -MaxOffsetSecs..MaxOffsetSecs}
    /\ run_missed_task \in BOOLEAN
    /\ wait_until = 0
    /\ local_time = 0
    /\ seconds_to_sleep = 0
    /\ timer_state = "none"
    /\ its_value = 0
    /\ alarm_registered = FALSE
    /\ alarm_pending = FALSE
    /\ now = 0
    /\ missed_by = 0
    /\ outcome = "none"
    /\ suspended = FALSE
    /\ timers_created = FALSE
    /\ early_wakeup = FALSE
    /\ clock_was_read = FALSE
    /\ interrupted_at = "never"

\* ------------------------------------------------- the wait: process steps
\* the wait returns `result` to its caller
Finish_retrying(res) ==
    /\ outcome' = res
    /\ pc' = IF res = "Ok" THEN "done" ELSE "start"
Finish(res) ==
    /\ outcome' = res
    /\ pc' = "done"

\* variant: an absent event time is replaced by a default time
SubcommandsWait_defaulting ==
    /\ pc = "start"
    /\ wait_until' = (IF event_time = None THEN 0 ELSE Unwrap(event_time)) + offset
    /\ pc' = "utils_wait"
    /\ UNCHANGED << clock, event_time, offset, run_missed_task, interrupted_at,
                    local_time, seconds_to_sleep, timer_state, its_value,
                    alarm_registered, alarm_pending, now, missed_by, outcome,
                    suspended, timers_created, early_wakeup, clock_was_read >>

\* subcommands::wait: match event_time.0 { Some(datetime) => ..., None => Err }
SubcommandsWait ==
    /\ pc = "start"
    /\ IF event_time = None
       THEN /\ Finish("NonOccurringEvent")
            /\ UNCHANGED wait_until
       ELSE /\ wait_until' = Unwrap(event_time) + offset
            /\ pc' = "utils_wait"
            /\ UNCHANGED outcome
    /\ UNCHANGED << clock, event_time, offset, run_missed_task, interrupted_at, local_time,
                    seconds_to_sleep, timer_state, its_value, alarm_registered,
                    alarm_pending, now, missed_by, suspended, timers_created,
                    early_wakeup, clock_was_read >>

\* utils::wait: read the local clock, fail with PastEvent on a negative
\* duration, else go on to sleep(wait_until)
UtilsWait ==
    /\ pc = "utils_wait"
    /\ local_time' = clock
    /\ clock_was_read' = TRUE
    /\ IF IsPastEvent(wait_until - clock)
       THEN Finish("PastEvent")
       ELSE /\ pc' = "register"
            /\ UNCHANGED outcome
    /\ UNCHANGED << clock, event_time, offset, run_missed_task, interrupted_at, wait_until,
                    seconds_to_sleep, timer_state, its_value, alarm_registered,
                    alarm_pending, now, missed_by, suspended, timers_created,
                    early_wakeup >>

\* sleep_until going into its loop without a listener for SIGALRM
RegisterAlarm_notListening ==
    /\ pc = "register"
    /\ pc' = "loop"
    /\ UNCHANGED << clock, event_time, offset, run_missed_task, interrupted_at, wait_until,
                    local_time, seconds_to_sleep, timer_state, its_value,
                    alarm_registered, alarm_pending, now, missed_by, outcome,
                    suspended, timers_created, early_wakeup, clock_was_read >>

\* sleep_until: let mut alarm = signal(SignalKind::alarm())?;
RegisterAlarm ==
    /\ pc = "register"
    /\ \E ok \in BOOLEAN :
        IF ok
        THEN /\ alarm_registered' = TRUE
             /\ pc' = "loop"
             /\ UNCHANGED outcome
        ELSE /\ Finish("SleepError")
             /\ UNCHANGED alarm_registered
    /\ UNCHANGED << clock, event_time, offset, run_missed_task, interrupted_at, wait_until,
                    local_time, seconds_to_sleep, timer_state, its_value,
                    alarm_pending, now, missed_by, suspended, timers_created,
                    early_wakeup, clock_was_read >>

\* sleep_until, head of the loop: read the clock, break when the whole
\* seconds left are negative; the break returns Ok(()) through sleep and
\* utils::wait to subcommands::wait
LoopHead ==
    /\ pc = "loop"
    /\ IF SleepIsOver(NumSeconds(wait_until - clock))
       THEN /\ pc' = "check_missed"
            /\ seconds_to_sleep' = 0
       ELSE /\ pc' = "timer_create"
            /\ seconds_to_sleep' = NumSeconds(wait_until - clock)
    /\ UNCHANGED << clock, event_time, offset, run_missed_task, interrupted_at, wait_until,
                    local_time, timer_state, its_value, alarm_registered,
                    alarm_pending, now, missed_by, outcome, suspended,
                    timers_created, early_wakeup, clock_was_read >>

\* arm_timer: timer_create(CLOCK_REALTIME, ...)
TimerCreate ==
    /\ pc = "timer_create"
    /\ \E ok \in BOOLEAN :
        IF ok
        THEN /\ timer_state' = "created"
             /\ timers_created' = TRUE
             /\ pc' = "clock_gettime"
             /\ UNCHANGED outcome
        ELSE /\ Finish("SleepError")
             /\ UNCHANGED << timer_state, timers_created >>
    /\ UNCHANGED << clock, event_time, offset, run_missed_task, interrupted_at, wait_until,
                    local_time, seconds_to_sleep, its_value, alarm_registered,
                    alarm_pending, now, missed_by, suspended, early_wakeup,
                    clock_was_read >>

\* arm_timer returning its error with the timer left as it is
ArmFailed_leaving(del_ok) ==
    /\ timer_state' = timer_state
    /\ its_value' = 0
    /\ Finish("SleepError")

\* arm_timer on a failed call: "let err = ...; disarm_timer(timer)?; return err";
\* a timer whose timer_delete failed stays in the system with its handle
\* dropped ("leaked")
ArmFailed(del_ok) ==
    /\ timer_state' = IF del_ok THEN "none" ELSE "leaked"
    /\ its_value' = 0
    /\ Finish("SleepError")

\* arm_timer: clock_gettime(CLOCK_REALTIME, &mut its.it_value), then
\* its.it_value.tv_sec += duration
ClockGettime ==
    /\ pc = "clock_gettime"
    /\ \E ok \in BOOLEAN, del_ok \in BOOLEAN :
        IF ok
        THEN /\ its_value' = clock + seconds_to_sleep * Res
             /\ pc' = "timer_settime"
             /\ UNCHANGED << outcome, timer_state >>
        ELSE ArmFailed(del_ok)
    /\ UNCHANGED << clock, event_time, offset, run_missed_task, interrupted_at, wait_until,
                    local_time, seconds_to_sleep, alarm_registered,
                    alarm_pending, now, missed_by, suspended, timers_created,
                    early_wakeup, clock_was_read >>

\* arm_timer: timer_settime(timer, TIMER_ABSTIME, &its, null); on success
\* sleep_until goes on to alarm.recv().await
TimerSettime ==
    /\ pc = "timer_settime"
    /\ \E ok \in BOOLEAN, del_ok \in BOOLEAN :
        IF ok
        THEN /\ timer_state' = "armed"
             /\ pc' = "recv"
             /\ suspended' = TRUE
             /\ UNCHANGED << outcome, its_value >>
        ELSE /\ ArmFailed(del_ok)
             /\ UNCHANGED suspended
    /\ UNCHANGED << clock, event_time, offset, run_missed_task, interrupted_at, wait_until,
                    local_time, seconds_to_sleep, alarm_registered,
                    alarm_pending, now, missed_by, timers_created,
                    early_wakeup, clock_was_read >>

\* sleep_until: alarm.recv().await returns once a SIGALRM has been delivered
Recv ==
    /\ pc = "recv"
    /\ alarm_pending
    /\ alarm_pending' = FALSE
    /\ early_wakeup' = (early_wakeup \/ clock < wait_until)
    /\ pc' = "disarm"
    /\ UNCHANGED << clock, event_time, offset, run_missed_task, interrupted_at, wait_until,
                    local_time, seconds_to_sleep, timer_state, its_value,
                    alarm_registered, now, missed_by, outcome, suspended,
                    timers_created, clock_was_read >>

\* sleep_until: unsafe { disarm_timer(timer)? }  (timer_delete)
DisarmTimer ==
    /\ pc = "disarm"
    /\ \E ok \in BOOLEAN :
        IF ok
        THEN /\ timer_state' = "none"
             /\ its_value' = 0
             /\ pc' = "loop"
             /\ UNCHANGED outcome
        ELSE /\ Finish("SleepError")
             /\ timer_state' = "leaked"
             /\ UNCHANGED its_value
    /\ UNCHANGED << clock, event_time, offset, run_missed_task, interrupted_at, wait_until,
                    local_time, seconds_to_sleep, alarm_registered,
                    alarm_pending, now, missed_by, suspended, timers_created,
                    early_wakeup, clock_was_read >>

\* variant: the missed-event check is made whatever run_missed_task says
CheckMissed_alwaysChecks ==
    /\ pc = "check_missed"
    /\ now' = clock
    /\ missed_by' = NumSeconds(clock - wait_until)
    /\ Finish(IF IsMissed(NumSeconds(clock - wait_until))
              THEN "EventMissed" ELSE "Ok")
    /\ UNCHANGED << clock, event_time, offset, run_missed_task, interrupted_at,
                    wait_until, local_time, seconds_to_sleep, timer_state,
                    its_value, alarm_registered, alarm_pending, suspended,
                    timers_created, early_wakeup, clock_was_read >>

\* subcommands::wait after utils::wait returned Ok: the missed-event check
CheckMissed ==
    /\ pc = "check_missed"
    /\ IF run_missed_task
       THEN /\ Finish("Ok")
            /\ UNCHANGED << now, missed_by >>
       ELSE /\ now' = clock
            /\ missed_by' = NumSeconds(clock - wait_until)
            /\ Finish(IF IsMissed(NumSeconds(clock - wait_until))
                      THEN "EventMissed" ELSE "Ok")
    /\ UNCHANGED << clock, event_time, offset, run_missed_task, interrupted_at, wait_until,
                    local_time, seconds_to_sleep, timer_state, its_value,
                    alarm_registered, alarm_pending, suspended,
                    timers_created, early_wakeup, clock_was_read >>

\* ------------------------------------------------ the wait: its environment
\* the wall clock advances by one tick
Tick ==
    /\ pc \notin Terminal
    /\ clock < NearClock \/ (clock >= FarClock /\ clock < MaxClock)
    /\ clock' = clock + 1
    /\ UNCHANGED << pc, event_time, offset, run_missed_task, interrupted_at, wait_until,
                    local_time, seconds_to_sleep, timer_state, its_value,
                    alarm_registered, alarm_pending, now, missed_by, outcome,
                    suspended, timers_created, early_wakeup, clock_was_read >>

\* the wall clock jumps forward (the process or the system was suspended):
\* by a few ticks, or by the length of the tolerance
ClockJump ==
    /\ pc \notin Terminal
    /\ \E j \in (2..MaxJumpTicks) \cup {FarClock} :
        /\ clock + j <= NearClock \/ (clock + j >= FarClock /\ clock + j <= MaxClock)
        /\ clock' = clock + j
    /\ UNCHANGED << pc, event_time, offset, run_missed_task, interrupted_at, wait_until,
                    local_time, seconds_to_sleep, timer_state, its_value,
                    alarm_registered, alarm_pending, now, missed_by, outcome,
                    suspended, timers_created, early_wakeup, clock_was_read >>

\* the armed one-shot timer (TIMER_ABSTIME) expires: SIGALRM is delivered,
\* to the listener when one is registered; with none the default disposition
\* of SIGALRM ends the process
TimerFire ==
    /\ pc \notin Terminal
    /\ timer_state = "armed"
    /\ clock >= its_value
    /\ IF alarm_registered
       THEN /\ timer_state' = "expired"
            /\ alarm_pending' = TRUE
            /\ UNCHANGED << pc, outcome, its_value >>
       ELSE /\ timer_state' = "none"
            /\ its_value' = 0
            /\ alarm_pending' = FALSE
            /\ pc' = "killed"
            /\ outcome' = "Killed"
    /\ UNCHANGED << clock, event_time, offset, run_missed_task, interrupted_at, wait_until,
                    local_time, seconds_to_sleep, alarm_registered,
                    now, missed_by, suspended, timers_created,
                    early_wakeup, clock_was_read >>

\* a SIGALRM from elsewhere while sleep_until is listening
SpuriousAlarm ==
    /\ pc \in {"loop", "timer_create", "clock_gettime", "timer_settime",
               "recv", "disarm"}
    /\ alarm_registered
    /\ ~alarm_pending
    /\ alarm_pending' = TRUE
    /\ UNCHANGED << clock, pc, event_time, offset, run_missed_task, interrupted_at, wait_until,
                    local_time, seconds_to_sleep, timer_state, its_value,
                    alarm_registered, now, missed_by, outcome, suspended,
                    timers_created, early_wakeup, clock_was_read >>

\* the user interrupt: no SIGINT handler is installed (only SIGALRM is
\* listened to), so the default disposition ends the process, and with it
\* its timers and its listener
Interrupt_ignored ==
    /\ pc \notin Terminal
    /\ interrupted_at = "never"
    /\ interrupted_at' = pc
    /\ UNCHANGED << clock, pc, event_time, offset, run_missed_task, wait_until,
                    local_time, seconds_to_sleep, timer_state, its_value,
                    alarm_registered, alarm_pending, now, missed_by, outcome,
                    suspended, timers_created, early_wakeup, clock_was_read >>
Interrupt ==
    /\ pc \notin Terminal
    /\ pc' = "killed"
    /\ interrupted_at' = pc
    /\ outcome' = "Killed"
    /\ timer_state' = "none"
    /\ its_value' = 0
    /\ alarm_registered' = FALSE
    /\ alarm_pending' = FALSE
    /\ UNCHANGED << clock, event_time, offset, run_missed_task, wait_until,
                    local_time, seconds_to_sleep, now, missed_by,
                    suspended, timers_created, early_wakeup, clock_was_read >>

\* ------------------------------------------------ the solar calculations
\* Angles are integers in thousandths of a degree, day fractions integers in
\* ticks of the day; the f64 arithmetic of the program is modelled exactly on
\* these grids, and its sines through a table of sin(d) * 10000 for whole
\* degrees d, interpolated linearly between them.

\* ticks in one day: a day fraction of 1.0
DayTicks == 86400 * Res

SinTable ==
    << 0, 175, 349, 523, 698, 872, 1045, 1219, 1392, 1564,
       1736, 1908, 2079, 2250, 2419, 2588, 2756, 2924, 3090, 3256,
       3420, 3584, 3746, 3907, 4067, 4226, 4384, 4540, 4695, 4848,
       5000, 5150, 5299, 5446, 5592, 5736, 5878, 6018, 6157, 6293,
       6428, 6561, 6691, 6820, 6947, 7071, 7193, 7314, 7431, 7547,
       7660, 7771, 7880, 7986, 8090, 8192, 8290, 8387, 8480, 8572,
       8660, 8746, 8829, 8910, 8988, 9063, 9135, 9205, 9272, 9336,
       9397, 9455, 9511, 9563, 9613, 9659, 9703, 9744, 9781, 9816,
       9848, 9877, 9903, 9925, 9945, 9962, 9976, 9986, 9994, 9998,
       10000 >>

\* sin of an angle in 0..90 degrees, times 10000
SinQuadrant(mdeg) ==
    LET lo == mdeg \div 1000
        fr == mdeg % 1000
    IN IF fr = 0 THEN SinTable[lo + 1]
       ELSE SinTable[lo + 1] + ((SinTable[lo + 2] - SinTable[lo + 1]) * fr) \div 1000

\* f64::to_radians().sin(), for an angle in -180..180 degrees, times 10000
Sin(mdeg) ==
    LET a == IF mdeg < 0 THEN -mdeg ELSE mdeg
        v == IF a <= 90000 THEN SinQuadrant(a) ELSE SinQuadrant(180000 - a)
    IN IF mdeg < 0 THEN -v ELSE v

\* f64::to_radians().cos(), for an angle in -90..270 degrees, times 10000
Cos(mdeg) == Sin(90000 - mdeg)

\* domain::Direction
Ascending == "Ascending"
Descending == "Descending"

\* domain::EventName, with the custom altitudes the model draws
CustomAltitudes == {-6000, 8000}
FixedNames == {"Sunrise", "Sunset", "CivilDawn", "CivilDusk", "NauticalDawn",
               "NauticalDusk", "AstronomicalDawn", "AstronomicalDusk"}
EventNames ==
    {[name |-> n, altitude |-> 0] : n \in FixedNames \cup {"SolarNoon"}}
    \cup {[name |-> n, altitude |-> a] : n \in {"CustomAM", "CustomPM"},
                                         a \in CustomAltitudes}

\* from_event_name with one elevation for every fixed event and the
\* direction of the custom events exchanged
from_event_name_oneElevation(event) ==
    [kind |-> IF event.name = "SolarNoon" THEN "Variable" ELSE "Fixed",
     degrees_below_horizon |-> IF event.name = "SolarNoon" THEN 0 ELSE 833,
     solar_direction |->
         IF event.name \in {"Sunset", "CivilDusk", "NauticalDusk",
                            "AstronomicalDusk", "CustomAM"}
         THEN Descending ELSE Ascending]

\* domain::Event::from_event_name
from_event_name(event) ==
    LET Fixed(dbh, dir) ==
            [kind |-> "Fixed", degrees_below_horizon |-> dbh, solar_direction |-> dir]
    IN CASE event.name = "Sunrise" -> Fixed(833, Ascending)
         [] event.name = "Sunset" -> Fixed(833, Descending)
         [] event.name = "CivilDawn" -> Fixed(6000, Ascending)
         [] event.name = "CivilDusk" -> Fixed(6000, Descending)
         [] event.name = "NauticalDawn" -> Fixed(12000, Ascending)
         [] event.name = "NauticalDusk" -> Fixed(12000, Descending)
         [] event.name = "AstronomicalDawn" -> Fixed(18000, Ascending)
         [] event.name = "AstronomicalDusk" -> Fixed(18000, Descending)
         [] event.name = "CustomAM" -> Fixed(event.altitude, Ascending)
         [] event.name = "CustomPM" -> Fixed(event.altitude, Descending)
         [] event.name = "SolarNoon" ->
              [kind |-> "Variable", degrees_below_horizon |-> 0,
               solar_direction |-> Ascending]

\* SolarCalculations::new, the solar declination and the equation of time
\* (in seconds) at 12:00 UTC of the dates the model draws; the keys are day
\* numbers counted from 2020-01-01:
\* 2020-02-11, 2020-06-21, 2020-11-03, 2020-12-21
SolarTable ==
    (41 :> [solar_declination |-> -14105, equation_of_time |-> -854])
    @@ (172 :> [solar_declination |-> 23435, equation_of_time |-> -115])
    @@ (307 :> [solar_declination |-> -15289, equation_of_time |-> 989])
    @@ (355 :> [solar_declination |-> -23437, equation_of_time |-> 101])

\* SolarCalculations::new: (720 - 4 * longitude - equation_of_time
\* + time_zone * 60) / 1440, as ticks of the day
SolarNoonFraction(lon, eot, tz) == (43200 - 240 * lon - eot + tz) * Res

\* a chrono DateTime in the offset of the context: the local calendar day and
\* the local time of day
DateTime(d, h, m, sec) == [day |-> d, hour |-> h, minute |-> m, second |-> sec]

\* the order of DateTime values of one offset: the seconds on the local time line
Instant(dt) == ((dt.day * 24 + dt.hour) * 60 + dt.minute) * 60 + dt.second

\* SolarCalculations::day_fraction_to_datetime; NaiveTime::from_hms panics on
\* an hour of 24 or more
day_fraction_to_datetime(day, day_fraction) ==
    LET d  == IF day_fraction < 0 THEN day - 1
              ELSE IF day_fraction >= DayTicks THEN day + 1 ELSE day
        f  == IF day_fraction < 0 THEN -day_fraction
              ELSE IF day_fraction >= DayTicks THEN day_fraction - DayTicks
              ELSE day_fraction
        h  == f \div (3600 * Res)
        m  == (f % (3600 * Res)) \div (60 * Res)
        sec == (f % (60 * Res)) \div Res
    IN [panic |-> h >= 24,
        time |-> IF h >= 24 THEN None ELSE Some(DateTime(d, h, m, sec))]

\* a / b on the grid, rounded toward zero (b > 0)
Quot(a, b) == IF a >= 0 THEN a \div b ELSE -((-a) \div b)

\* f64::to_radians().tan(), times 10000, for an angle inside -90..90 degrees
Tan(mdeg) == Quot(Sin(mdeg) * 10000, Cos(mdeg))

\* SolarCalculations::hour_angle, the argument of acos, times 10000
AcosArgument(lat, decl, degrees_below_horizon) ==
    LET event_angle == degrees_below_horizon + 90000
    IN Quot(Cos(event_angle) * 10000, Quot(Cos(lat) * Cos(decl), 10000))
       - Quot(Tan(lat) * Tan(decl), 10000)

\* f64::acos().to_degrees() in whole degrees, for x times 10000 in -1..1:
\* the largest angle whose cosine is at least x
CosDegrees == [a \in 0..181 |-> Cos(a * 1000)]
Acos(x) ==
    CHOOSE a \in 0..180 :
        /\ CosDegrees[a] >= x
        /\ a = 180 \/ CosDegrees[a + 1] < x

\* SolarCalculations::hour_angle: None when the acos is NaN (its argument is
\* outside -1..1)
hour_angle(lat, decl, degrees_below_horizon) ==
    LET x == AcosArgument(lat, decl, degrees_below_horizon)
    IN IF x > 10000 \/ x < -10000 THEN None ELSE Some(Acos(x))

\* SolarCalculations::solar_noon
solar_noon(day, noon_fraction) ==
    LET dt == day_fraction_to_datetime(day, noon_fraction)
    IN [panic |-> dt.panic, time |-> dt.time, day_fraction |-> noon_fraction]

\* SolarCalculations::event_time
event_time_of(day, lat, decl, noon_fraction, event) ==
    IF event.kind = "Fixed"
    THEN LET ha == hour_angle(lat, decl, event.degrees_below_horizon)
         IN IF ha = None
            THEN [panic |-> FALSE, time |-> None, day_fraction |-> 0]
            ELSE LET day_fraction ==
                         IF event.solar_direction = Ascending
                         THEN noon_fraction - Unwrap(ha) * 240 * Res
                         ELSE noon_fraction + Unwrap(ha) * 240 * Res
                     dt == day_fraction_to_datetime(day, day_fraction)
                 IN [panic |-> dt.panic, time |-> dt.time,
                     day_fraction |-> day_fraction]
    ELSE solar_noon(day, noon_fraction)

\* the inputs the model draws
Latitudes == {-70000, -45000, 0, 51477, 66800, 70673}
Longitudes == {-180, -90, 0, 90, 180}
UtcOffsets == {-86340, -36000, 0, 36000, 86340}
\* day fractions for the direct calls: the multiples of 1/FractionParts of a
\* day from -1 to 2, and the same one second and one tick later
FractionParts == 8
DayFractions ==
    {(k * DayTicks) \div FractionParts + e :
        k \in (-FractionParts)..(2 * FractionParts), e \in {0, Res + 1}}

NoQuery == [kind |-> "none", event |-> [name |-> "none", altitude |-> 0],
            day_fraction |-> 0]
NoResult == [panic |-> FALSE, time |-> None, day_fraction |-> 0]

CalcInit ==
    /\ date \in DOMAIN SolarTable
    /\ utc_offset \in UtcOffsets
    /\ latitude \in Latitudes
    /\ longitude \in Longitudes
    /\ solar_declination = 0
    /\ solar_noon_fraction = 0
    /\ calc_pc = "new"
    /\ query = NoQuery
    /\ result = NoResult

\* SolarCalculations::new
New ==
    /\ calc_pc = "new"
    /\ solar_declination' = SolarTable[date].solar_declination
    /\ solar_noon_fraction' =
           SolarNoonFraction(longitude, SolarTable[date].equation_of_time, utc_offset)
    /\ calc_pc' = "ready"
    /\ UNCHANGED << date, utc_offset, latitude, longitude, query, result >>

\* a call returns r, or panics
Return(r) ==
    /\ result' = r
    /\ calc_pc' = IF r.panic THEN "panicked" ELSE "ready"

\* a call of event_time(event)
EventTime ==
    /\ calc_pc = "ready"
    /\ \E e \in EventNames :
        /\ query' = [kind |-> "event_time", event |-> e, day_fraction |-> 0]
        /\ Return(event_time_of(date, latitude, solar_declination,
                                solar_noon_fraction, from_event_name(e)))
    /\ UNCHANGED << date, utc_offset, latitude, longitude, solar_declination,
                    solar_noon_fraction >>

\* a call of solar_noon()
SolarNoon ==
    /\ calc_pc = "ready"
    /\ query' = [kind |-> "solar_noon", event |-> NoQuery.event, day_fraction |-> 0]
    /\ Return(solar_noon(date, solar_noon_fraction))
    /\ UNCHANGED << date, utc_offset, latitude, longitude, solar_declination,
                    solar_noon_fraction >>

\* a call of day_fraction_to_datetime(day_fraction), as the unit tests make it
DayFractionToDatetime ==
    /\ calc_pc = "ready"
    /\ \E f \in DayFractions :
        /\ query' = [kind |-> "day_fraction", event |-> NoQuery.event,
                     day_fraction |-> f]
        /\ LET dt == day_fraction_to_datetime(date, f)
           IN Return([panic |-> dt.panic, time |-> dt.time, day_fraction |-> f])
    /\ UNCHANGED << date, utc_offset, latitude, longitude, solar_declination,
                    solar_noon_fraction >>

\* ------------------------------------------------------------- day length
\* f64 % f64: the remainder has the sign of the dividend
Rem(a, b) == IF a >= 0 THEN a % b ELSE -((-a) % b)

\* SolarCalculations::new: true_solar_time, in seconds, for a local time of
\* day in seconds
true_solar_time(time_of_day, eot, lon, tz) ==
    Rem(time_of_day + eot + 240 * lon - tz, SecondsPerDay)

\* SolarCalculations::new: true_hour_angle, in thousandths of a degree
true_hour_angle(tst) ==
    IF tst < 0 THEN Quot(tst * 25, 6) + 180000 ELSE Quot(tst * 25, 6) - 180000

\* f64::asin().to_degrees() in thousandths of a degree, for x times 10000
Asin(x) ==
    LET a == IF x < 0 THEN -x ELSE x
        v == IF a >= 10000 THEN 90000
             ELSE LET d == CHOOSE k \in 0..89 :
                               SinTable[k + 1] <= a /\ a < SinTable[k + 2]
                  IN d * 1000 + ((a - SinTable[d + 1]) * 1000)
                                    \div (SinTable[d + 2] - SinTable[d + 1])
    IN IF x < 0 THEN -v ELSE v

\* SolarCalculations::new: solar_elevation_angle = 90 - solar_zenith_angle,
\* in thousandths of a degree
solar_elevation_angle(lat, decl, hour_angle_mdeg) ==
    LET ha == IF hour_angle_mdeg < 0 THEN -hour_angle_mdeg ELSE hour_angle_mdeg
    IN Asin(Quot(Sin(lat) * Sin(decl), 10000)
            + Quot(Quot(Cos(lat) * Cos(decl), 10000) * Cos(ha), 10000))

\* 1 / tan of an angle in 0..90 degrees (0 excluded), times 100
Cot(mdeg) == Quot(Cos(mdeg) * 100, Sin(mdeg))

\* SolarCalculations::new: atmospheric_refraction before the division by
\* 3600, in seconds of arc
atmospheric_refraction(elevation) ==
    IF elevation > 85000 THEN 0
    ELSE IF elevation > 5000
    THEN LET c   == Cot(elevation)
             c4  == Quot(c * c, 100) * Quot(c * c, 100)
             c5  == Quot(Quot(c4, 1000) * c, 1000)
         IN Quot(581 * c, 1000) - Quot(7 * Quot(c * c * c, 1000), 100000)
            + Quot(86 * c5, 1000000)
    ELSE IF elevation > -575
    THEN LET a == -12790 + Quot(711 * elevation, 1000)
             b == 103400 + Quot(a * elevation, 1000)
         IN 1735 + Quot(b * elevation, 1000000)
    ELSE Quot(20772 * Cot(-elevation), 100000)

\* SolarCalculations::new: corrected_solar_elevation_angle of the context
\* made for the given local time of day, in thousandths of a degree (the
\* declination and the equation of time are those of the context's date)
corrected_solar_elevation_angle(time_of_day, lat, lon, tz, decl, eot) ==
    LET e == solar_elevation_angle(lat, decl,
                 true_hour_angle(true_solar_time(time_of_day, eot, lon, tz)))
    IN e + Quot(atmospheric_refraction(e) * 5, 18)

\* seconds from midnight of a DateTime
TimeSeconds(dt) == dt.hour * 3600 + dt.minute * 60 + dt.second

\* SolarCalculations::max_solar_elevation: the corrected elevation of a new
\* context made at self.solar_noon().0.unwrap()
max_solar_elevation(day, lat, lon, tz, decl, eot, noon_fraction) ==
    LET noon == solar_noon(day, noon_fraction)
    IN IF noon.panic THEN [panic |-> TRUE, elevation |-> 0]
       ELSE [panic |-> FALSE,
             elevation |-> corrected_solar_elevation_angle(
                               TimeSeconds(Unwrap(noon.time)), lat, lon, tz,
                               decl, eot)]

\* the refraction-corrected threshold of sunrise, thousandths of a degree
SunriseElevation == 833

\* SolarCalculations::day_length, in seconds
day_length(day, lat, lon, tz, decl, eot, noon_fraction) ==
    LET sunrise == event_time_of(day, lat, decl, noon_fraction,
                       from_event_name([name |-> "Sunrise", altitude |-> 0]))
        sunset  == event_time_of(day, lat, decl, noon_fraction,
                       from_event_name([name |-> "Sunset", altitude |-> 0]))
    IN IF sunrise.panic \/ sunset.panic THEN [panic |-> TRUE, length |-> 0]
       ELSE IF sunrise.time # None /\ sunset.time # None
       THEN [panic |-> FALSE,
             length |-> Instant(Unwrap(sunset.time))
                            - Instant(Unwrap(sunrise.time))]
       ELSE LET max == max_solar_elevation(day, lat, lon, tz, decl, eot,
                                           noon_fraction)
            IN IF max.panic THEN [panic |-> TRUE, length |-> 0]
               ELSE [panic |-> FALSE,
                     length |-> IF max.elevation >= SunriseElevation
                                THEN 24 * 3600 ELSE 0]

\* day_length keeping in the context the solar-noon fraction of the context
\* that max_solar_elevation builds at solar noon
DayLength_inPlace ==
    /\ calc_pc = "ready"
    /\ query' = [kind |-> "day_length", event |-> NoQuery.event,
                 day_fraction |-> 0]
    /\ LET r == day_length(date, latitude, longitude, utc_offset,
                           solar_declination, SolarTable[date].equation_of_time,
                           solar_noon_fraction)
       IN Return([panic |-> r.panic, time |-> None, day_fraction |-> 0,
                  length |-> r.length])
    /\ solar_noon_fraction' =
           SolarNoonFraction(longitude, SolarTable[date].equation_of_time + 1,
                             utc_offset)
    /\ UNCHANGED << date, utc_offset, latitude, longitude, solar_declination >>

\* a call of day_length()
DayLength ==
    /\ calc_pc = "ready"
    /\ query' = [kind |-> "day_length", event |-> NoQuery.event,
                 day_fraction |-> 0]
    /\ LET r == day_length(date, latitude, longitude, utc_offset,
                           solar_declination, SolarTable[date].equation_of_time,
                           solar_noon_fraction)
       IN Return([panic |-> r.panic, time |-> None, day_fraction |-> 0,
                  length |-> r.length])
    /\ UNCHANGED << date, utc_offset, latitude, longitude, solar_declination,
                    solar_noon_fraction >>

\* ---------------------------------------------------- the wake time of a wait
\* chrono: DateTime<FixedOffset> + Duration, the duration in whole seconds;
\* the sum carries into the calendar day
AddDuration_sameDay(dt, secs) ==
    LET tod == (TimeSeconds(dt) + secs) % SecondsPerDay
    IN DateTime(dt.day, tod \div 3600, (tod % 3600) \div 60, tod % 60)
AddDuration(dt, secs) ==
    LET total == TimeSeconds(dt) + secs
        tod   == total % SecondsPerDay
    IN DateTime(dt.day + total \div SecondsPerDay,
                tod \div 3600, (tod % 3600) \div 60, tod % 60)

\* the event times and the offsets the model draws: parse_offset accepts
\* -23:59:59 to 23:59:59
EventDateTimes ==
    {DateTime(d, t[1], t[2], t[3]) :
        d \in {41, 172},
        t \in {<<0, 0, 30>>, <<6, 22, 58>>, <<12, 0, 0>>, <<17, 0, 33>>,
               <<23, 59, 30>>}}
OffsetInputs == {-86399, -45052, -3600, -31, -1, 0, 1, 31, 3600, 45052, 86399}

\* subcommands::wait, "let wait_until = datetime + offset", on calendar times
WaitUntil ==
    /\ calc_pc = "fn"
    /\ \E dt \in EventDateTimes, o \in OffsetInputs :
        /\ query' = [kind |-> "wait_until", datetime |-> dt, offset |-> o]
        /\ result' = AddDuration(dt, o)
    /\ UNCHANGED << date, utc_offset, latitude, longitude, solar_declination,
                    solar_noon_fraction, calc_pc >>

\* ------------------------------------------------------ event construction
\* domain::RawEventName, the names the command line accepts
RawEventNames == FixedNames \cup {"CustomAM", "CustomPM", "SolarNoon"}
\* the --altitude argument: absent, or one of the custom altitudes
AltitudeArguments == {None} \cup {Some(a) : a \in CustomAltitudes}

\* clap without the requirement: --altitude is always optional
required_never(event_name) == FALSE

\* Command::Wait::custom_altitude, required_if_eq_any: --altitude is required
\* when the event name is custom_am or custom_pm
required_if_eq_any(event_name) == event_name \in {"CustomAM", "CustomPM"}

\* Cli::parse: a missing required argument ends the program with a usage error
CliParse(event_name, custom_altitude) ==
    IF required_if_eq_any(event_name) /\ custom_altitude = None
    THEN "UsageError"
    ELSE "Ok"

\* parse_config with every event taking the altitude that was supplied
parse_config_usingAltitude(event_name, custom_altitude) ==
    IF custom_altitude = None
    THEN [outcome |-> "Panic", event |-> None]
    ELSE [outcome |-> "Ok",
          event |-> Some([from_event_name([name |-> event_name, altitude |-> 0])
                            EXCEPT !.degrees_below_horizon = Unwrap(custom_altitude)])]

\* parse_config, the match on the raw event name: the fixed names and
\* solar_noon drop custom_altitude, the custom names unwrap it
parse_config(event_name, custom_altitude) ==
    IF event_name \in {"CustomAM", "CustomPM"}
    THEN IF custom_altitude = None
         THEN [outcome |-> "Panic", event |-> None]
         ELSE [outcome |-> "Ok",
               event |-> Some(from_event_name([name |-> event_name,
                                               altitude |-> Unwrap(custom_altitude)]))]
    ELSE [outcome |-> "Ok",
          event |-> Some(from_event_name([name |-> event_name, altitude |-> 0]))]

\* the wait subcommand from the command line to the event time: Cli::parse,
\* parse_config, SolarCalculations::new and event_time, at longitude 0 and
\* UTC offset 0
Run(day, lat, event_name, custom_altitude) ==
    LET NotRun == [outcome |-> "UsageError", event |-> None,
                   calculated |-> FALSE, event_time |-> NoResult]
        config == parse_config(event_name, custom_altitude)
    IN IF CliParse(event_name, custom_altitude) # "Ok"
       THEN NotRun
       ELSE IF config.outcome # "Ok"
       THEN [NotRun EXCEPT !.outcome = config.outcome]
       ELSE [outcome |-> "Ok", event |-> config.event, calculated |-> TRUE,
             event_time |->
                 event_time_of(day, lat, SolarTable[day].solar_declination,
                               SolarNoonFraction(0, SolarTable[day].equation_of_time, 0),
                               Unwrap(config.event))]

\* heliocron wait --event <name> [--altitude <a>]
CommandLine ==
    /\ calc_pc = "fn"
    /\ \E d \in DOMAIN SolarTable, lat \in Latitudes, n \in RawEventNames,
          a \in AltitudeArguments :
        /\ query' = [kind |-> "command_line", day |-> d, latitude |-> lat,
                     event_name |-> n, custom_altitude |-> a]
        /\ result' = Run(d, lat, n, a)
    /\ UNCHANGED << date, utc_offset, latitude, longitude, solar_declination,
                    solar_noon_fraction, calc_pc >>

\* the event names given to enums::Event::new by the unit tests and by
\* config.rs, the eleven of the vocabulary and one outside it
EventStrings == {"sunrise", "sunset", "civil_dawn", "civil_dusk",
                 "nautical_dawn", "nautical_dusk", "astronomical_dawn",
                 "astronomical_dusk", "custom_am", "custom_pm", "solar_noon",
                 "moonrise"}

\* a &str is the sequence of its characters
Chars ==
    ("sunrise" :> << "s", "u", "n", "r", "i", "s", "e" >>)
    @@ ("sunset" :> << "s", "u", "n", "s", "e", "t" >>)
    @@ ("civil_dawn" :> << "c", "i", "v", "i", "l", "_", "d", "a", "w", "n" >>)
    @@ ("civil_dusk" :> << "c", "i", "v", "i", "l", "_", "d", "u", "s", "k" >>)
    @@ ("nautical_dawn" :> << "n", "a", "u", "t", "i", "c", "a", "l", "_", "d", "a", "w", "n" >>)
    @@ ("nautical_dusk" :> << "n", "a", "u", "t", "i", "c", "a", "l", "_", "d", "u", "s", "k" >>)
    @@ ("astronomical_dawn" :> << "a", "s", "t", "r", "o", "n", "o", "m", "i", "c", "a", "l", "_", "d", "a", "w", "n" >>)
    @@ ("astronomical_dusk" :> << "a", "s", "t", "r", "o", "n", "o", "m", "i", "c", "a", "l", "_", "d", "u", "s", "k" >>)
    @@ ("custom_am" :> << "c", "u", "s", "t", "o", "m", "_", "a", "m" >>)
    @@ ("custom_pm" :> << "c", "u", "s", "t", "o", "m", "_", "p", "m" >>)
    @@ ("solar_noon" :> << "s", "o", "l", "a", "r", "_", "n", "o", "o", "n" >>)
    @@ ("moonrise" :> << "m", "o", "o", "n", "r", "i", "s", "e" >>)

Alphabet == << "a", "b", "c", "d", "e", "f", "g", "h", "i", "j", "k", "l", "m", "n", "o", "p", "q", "r", "s", "t", "u", "v", "w", "x", "y", "z" >>
Capitals == << "A", "B", "C", "D", "E", "F", "G", "H", "I", "J", "K", "L", "M", "N", "O", "P", "Q", "R", "S", "T", "U", "V", "W", "X", "Y", "Z" >>
Whitespace == {" ", "\t"}

\* str::to_lowercase and str::to_uppercase, on the ASCII letters
to_lowercase(s) ==
    [i \in 1..Len(s) |->
        IF \E k \in 1..26 : Capitals[k] = s[i]
        THEN Alphabet[CHOOSE k \in 1..26 : Capitals[k] = s[i]]
        ELSE s[i]]
to_uppercase(s) ==
    [i \in 1..Len(s) |->
        IF \E k \in 1..26 : Alphabet[k] = s[i]
        THEN Capitals[CHOOSE k \in 1..26 : Alphabet[k] = s[i]]
        ELSE s[i]]

\* str::trim: the string without its leading and trailing whitespace
trim(s) ==
    LET kept == {i \in 1..Len(s) : s[i] \notin Whitespace}
    IN IF kept = {} THEN << >>
       ELSE SubSeq(s, CHOOSE i \in kept : \A j \in kept : i <= j,
                      CHOOSE i \in kept : \A j \in kept : i >= j)

\* Event::new taking every string outside the vocabulary for sunrise
EventNew_defaulting(event, custom_altitude) ==
    [outcome |-> "Ok",
     event |-> Some([variant |-> "Sunrise", degrees_below_horizon |-> 833,
                     time_of_day |-> "AM"])]

\* enums::Event::new
EventNew(event, custom_altitude) ==
    LET name == to_lowercase(trim(event))
        Ok(variant, dbh, tod) ==
            [outcome |-> "Ok",
             event |-> Some([variant |-> variant, degrees_below_horizon |-> dbh,
                             time_of_day |-> tod])]
        Custom(variant, tod) ==
            IF custom_altitude = None
            THEN [outcome |-> "Panic", event |-> None]
            ELSE Ok(variant, Unwrap(custom_altitude), tod)
    IN CASE name = Chars["sunrise"] -> Ok("Sunrise", 833, "AM")
         [] name = Chars["sunset"] -> Ok("Sunset", 833, "PM")
         [] name = Chars["civil_dawn"] -> Ok("CivilDawn", 6000, "AM")
         [] name = Chars["civil_dusk"] -> Ok("CivilDusk", 6000, "PM")
         [] name = Chars["nautical_dawn"] -> Ok("NauticalDawn", 12000, "AM")
         [] name = Chars["nautical_dusk"] -> Ok("NauticalDusk", 12000, "PM")
         [] name = Chars["astronomical_dawn"] -> Ok("AstronomicalDawn", 18000, "AM")
         [] name = Chars["astronomical_dusk"] -> Ok("AstronomicalDusk", 18000, "PM")
         [] name = Chars["custom_am"] -> Custom("CustomAM", "AM")
         [] name = Chars["custom_pm"] -> Custom("CustomPM", "PM")
         [] name = Chars["solar_noon"] -> Ok("SolarNoon", 0, "None")
         [] OTHER -> [outcome |-> "InvalidEvent", event |-> None]

\* a call of Event::new(event, custom_altitude), as the unit tests make it
NewEvent ==
    /\ calc_pc = "fn"
    /\ \E n \in EventStrings, a \in AltitudeArguments :
        /\ query' = [kind |-> "event_new", event_name |-> n, custom_altitude |-> a]
        /\ result' = EventNew(Chars[n], a)
    /\ UNCHANGED << date, utc_offset, latitude, longitude, solar_declination,
                    solar_noon_fraction, calc_pc >>

\* the strings given to parsers::parse_event: names as they stand, in
\* capitals, padded with whitespace, with the first letter a capital and
\* trailing blanks, with a blank inside, with a letter appended; the empty
\* string and a blank one
SpelledNames == {"sunrise", "sunset", "custom_am", "solar_noon", "moonrise"}
Spellings(s) ==
    {s, to_uppercase(s), << " ", "\t" >> \o s \o << " " >>,
     to_uppercase(SubSeq(s, 1, 1)) \o SubSeq(s, 2, Len(s)) \o << " ", " " >>,
     SubSeq(s, 1, 3) \o << " " >> \o SubSeq(s, 4, Len(s)),
     s \o << "s" >>}
RawStrings ==
    UNION {Spellings(Chars[n]) : n \in SpelledNames} \cup {<< >>, << " " >>}

\* parsers::parse_event
parse_event(event, custom_altitude) == EventNew(event, custom_altitude)

\* a call of parse_event(event, None), as the unit tests make it
ParseEvent ==
    /\ calc_pc = "fn"
    /\ \E s \in RawStrings :
        /\ query' = [kind |-> "parse_event", event |-> s, custom_altitude |-> None]
        /\ result' = parse_event(s, None)
    /\ UNCHANGED << date, utc_offset, latitude, longitude, solar_declination,
                    solar_noon_fraction, calc_pc >>

\* ------------------------------------------------------ validated scalars
\* an f64 is a finite number, in thousandths of a degree, or NaN or an
\* infinity
Finite(v) == [class |-> "finite", value |-> v]
NaN == [class |-> "nan", value |-> 0]
Infinity == [class |-> "inf", value |-> 0]
NegInfinity == [class |-> "-inf", value |-> 0]

\* RangeInclusive<f64>::contains: start <= v && v <= end, false for NaN
contains(start, end, v) ==
    CASE v.class = "finite" -> start <= v.value /\ v.value <= end
      [] v.class = "inf" -> FALSE
      [] v.class = "-inf" -> FALSE
      [] v.class = "nan" -> FALSE

\* LATITUDE_RANGE and LONGITUDE_RANGE, and the range in Altitude::new
LATITUDE_RANGE == << -90000, 90000 >>
LONGITUDE_RANGE == << -180000, 180000 >>
ALTITUDE_RANGE == << -90000, 90000 >>

\* Latitude::new moving a finite value outside the range to its nearer end
LatitudeNew_clamping(value) ==
    IF value.class # "finite"
    THEN [outcome |-> "Err", value |-> None]
    ELSE [outcome |-> "Ok",
          value |-> Some(Finite(IF value.value < LATITUDE_RANGE[1]
                                THEN LATITUDE_RANGE[1]
                                ELSE IF value.value > LATITUDE_RANGE[2]
                                THEN LATITUDE_RANGE[2]
                                ELSE value.value))]

\* Latitude::new
LatitudeNew(value) ==
    IF contains(LATITUDE_RANGE[1], LATITUDE_RANGE[2], value)
    THEN [outcome |-> "Ok", value |-> Some(value)]
    ELSE [outcome |-> "Err", value |-> None]

\* Longitude::new
LongitudeNew(value) ==
    IF contains(LONGITUDE_RANGE[1], LONGITUDE_RANGE[2], value)
    THEN [outcome |-> "Ok", value |-> Some(value)]
    ELSE [outcome |-> "Err", value |-> None]

\* Altitude::new
AltitudeNew(alt) ==
    IF contains(ALTITUDE_RANGE[1], ALTITUDE_RANGE[2], alt)
    THEN [outcome |-> "Ok", value |-> Some(alt)]
    ELSE [outcome |-> "Err", value |-> None]

\* the values the model draws: the ends of the two ranges, their neighbours
\* one thousandth of a degree away, values well inside and well outside, and
\* the f64 values that are not finite
ScalarInputs ==
    {Finite(v) : v \in {-360000, -180001, -180000, -179999, -90001, -90000,
                        -89999, 0, 51477, 89999, 90000, 90001, 179999, 180000,
                        180001, 360000}}
    \cup {NaN, Infinity, NegInfinity}

\* a call of Latitude::new, Longitude::new or Altitude::new
ScalarNew ==
    /\ calc_pc = "fn"
    /\ \E v \in ScalarInputs :
        \/ /\ query' = [kind |-> "scalar_new", type |-> "Latitude", value |-> v]
           /\ result' = LatitudeNew(v)
        \/ /\ query' = [kind |-> "scalar_new", type |-> "Longitude", value |-> v]
           /\ result' = LongitudeNew(v)
        \/ /\ query' = [kind |-> "scalar_new", type |-> "Altitude", value |-> v]
           /\ result' = AltitudeNew(v)
    /\ UNCHANGED << date, utc_offset, latitude, longitude, solar_declination,
                    solar_noon_fraction, calc_pc >>

\* ---------------------------------------------------------- Julian dates
\* runs of consecutive calendar days, as << year, month, day >>
Calendar ==
    << << <<2019, 12, 30>>, <<2019, 12, 31>>, <<2020, 1, 1>>, <<2020, 1, 2>> >>,
       << <<2020, 2, 28>>, <<2020, 2, 29>>, <<2020, 3, 1>>, <<2020, 3, 2>> >>,
       << <<2020, 3, 14>>, <<2020, 3, 15>>, <<2020, 3, 16>>, <<2020, 3, 17>> >> >>

\* the instants the model draws: a day of a run that has a day before and a
\* day after it, and a UTC time of that day in seconds; and the offsets
UtcTimes == {0, 1800, 36541, 43200, 43741, 84600, 86399}
ZoneOffsets == {-43200, -3600, 0, 3600, 19800, 43200}

\* DateTimeExt::to_julian_date of the DateTime<Tz> that denotes the instant
\* (day i of the run, utc_seconds) in the given offset: the day number is
\* computed from self.year(), self.month(), self.day(), the calendar date in
\* the offset, the time part from self.naive_utc(); the result is the pair of
\* julian_day and time_part, time_part in seconds
to_julian_date(run, i, utc_seconds, zone) ==
    LET local  == run[i + (utc_seconds + zone) \div SecondsPerDay]
        year   == local[1]
        month  == local[2]
        day    == local[3]
        julian_day == 367 * year - (7 * (year + (month + 9) \div 12)) \div 4
                      + (275 * month) \div 9 + day + 1721014
        hour   == utc_seconds \div 3600
        minute == (utc_seconds % 3600) \div 60
        second == utc_seconds % 60
        hour_part == IF hour >= 12 THEN (hour - 12) * 3600
                     ELSE hour * 3600 - 43200
    IN [julian_day |-> julian_day,
        time_part  |-> hour_part + minute * 60 + second]

\* a call of to_julian_date, as test_to_juilian_date makes it
ToJulianDate ==
    /\ calc_pc = "fn"
    /\ \E r \in 1..Len(Calendar), i \in 2..3, t \in UtcTimes, z \in ZoneOffsets :
        /\ query' = [kind |-> "julian", run |-> r, day |-> i,
                     utc_seconds |-> t, zone |-> z]
        /\ result' = to_julian_date(Calendar[r], i, t, z)
    /\ UNCHANGED << date, utc_offset, latitude, longitude, solar_declination,
                    solar_noon_fraction, calc_pc >>

\* ------------------------------------------------ floating-point arithmetic
\* An f64 of the code is modelled as a binary floating-point number with a
\* significand of Precision bits, held as a multiple of 2^-FracBits; every
\* product is rounded to the nearest such number, ties to even, as IEEE 754
\* multiplication is.
One == 2 ^ FracBits

\* the number of bits of x >= 0
BitLength(x) ==
    IF x >= 2 ^ 30 THEN 31
    ELSE CHOOSE n \in 0..30 : 2 ^ n > x /\ (n = 0 \/ 2 ^ (n - 1) <= x)

\* rounding of an exact result to the nearest float, ties to even
RoundFloat(x) ==
    LET n == BitLength(x)
    IN IF n <= Precision THEN x
       ELSE LET q  == 2 ^ (n - Precision)
                r  == x % q
                lo == x - r
            IN IF 2 * r > q \/ (2 * r = q /\ (lo \div q) % 2 = 1)
               THEN lo + q ELSE lo

\* f64 * f64 for a float x >= 0 and a whole number c
FMul(x, c) == RoundFloat(x * c)
\* f64::trunc() as u32 and f64::fract(), both exact
Trunc(x) == x \div One
Fract(x) == x % One

\* day_fraction_to_datetime, the expansion of a fraction inside [0,1) to
\* hour, minute and second with the code's floating-point operations
hms_of_fraction(day_fraction) ==
    LET hour_fraction   == FMul(day_fraction, 24)
        minute_fraction == FMul(Fract(hour_fraction), 60)
        second_fraction == FMul(Fract(minute_fraction), 60)
    IN [hour   |-> Trunc(hour_fraction),
        minute |-> Trunc(minute_fraction),
        second |-> Trunc(second_fraction)]

\* NaiveTimeExt::day_fraction: num_seconds_from_midnight() as f64 / 86400.0,
\* the quotient rounded to the nearest float, ties to even (86400 is
\* 128 x 675; defined for the times whose quotient has Precision bits or
\* more before the 2^-FracBits place)
day_fraction(seconds) ==
    LET odd == SecondsPerDay \div 128
        num == seconds * (One \div 128)
        a   == num \div odd
        rem == num % odd
        q   == 2 ^ (BitLength(a) - Precision)
        r   == a % q
        lo  == a - r
        twice == 2 * (r * odd + rem)
    IN IF twice > q * odd \/ (twice = q * odd /\ (lo \div q) % 2 = 1)
       THEN lo + q ELSE lo

\* the times of day the model draws, in seconds from midnight: from 01:30:00
\* on, every 13 seconds
TimeInputs == {5400 + 13 * j : j \in 0..(FloatParts - 1)}
\* the day fractions the model draws: those of the times drawn
FloatInputs == {day_fraction(t) : t \in TimeInputs}

\* a direct call of day_fraction_to_datetime with a fraction inside [0,1),
\* as test_day_fraction_to_time makes it
DayFractionToTime ==
    /\ calc_pc = "fn"
    /\ \E f \in FloatInputs :
        /\ query' = [kind |-> "hms", day_fraction |-> f]
        /\ result' = hms_of_fraction(f)
    /\ UNCHANGED << date, utc_offset, latitude, longitude, solar_declination,
                    solar_noon_fraction, calc_pc >>

\* ------------------------------------------------ the wait, steady clock
\* The wall clock advances tick by tick without jumps, no signal comes from
\* elsewhere, no system call fails and the process is neither interrupted
\* nor held up: between two ticks it takes one step at least, unless it is
\* suspended in alarm.recv(), and StepsPerTick steps at most.
Blocked == pc = "recv" /\ ~alarm_pending
TimerDue == timer_state = "armed" /\ clock >= its_value

\* a step of the process that succeeds
Steady(step) ==
    /\ steps < StepsPerTick
    /\ step
    /\ outcome' # "SleepError"
    /\ steps' = steps + 1
    /\ timers_armed' = IF pc = "timer_settime" /\ pc' = "recv"
                       THEN timers_armed + 1 ELSE timers_armed

\* a tick of the steady clock; a due timer expires before the next tick
SteadyTick ==
    /\ pc \notin Terminal
    /\ clock < MaxClock
    /\ Blocked \/ steps >= 1
    /\ ~TimerDue
    /\ clock' = clock + 1
    /\ steps' = 0
    /\ UNCHANGED << pc, event_time, offset, run_missed_task, interrupted_at,
                    wait_until, local_time, seconds_to_sleep, timer_state,
                    its_value, alarm_registered, alarm_pending, now,
                    missed_by, outcome, suspended, timers_created,
                    early_wakeup, clock_was_read, timers_armed >>

\* the timer expires as soon as it is due
SteadyFire == TimerFire /\ UNCHANGED steadyVars

\* --------------------------------------------------------- specifications
\* the counters of the steady wait while it is not modelled
SteadyIdle ==
    /\ steps = 0
    /\ timers_armed = 0

\* the calculations while the wait is modelled, and the wait while the
\* calculations are
CalcIdle ==
    /\ date = 0
    /\ utc_offset = 0
    /\ latitude = 0
    /\ longitude = 0
    /\ solar_declination = 0
    /\ solar_noon_fraction = 0
    /\ calc_pc = "idle"
    /\ query = NoQuery
    /\ result = NoResult

WaitIdle ==
    /\ clock = 0
    /\ pc = "idle"
    /\ event_time = None
    /\ offset = 0
    /\ run_missed_task = FALSE
    /\ wait_until = 0
    /\ local_time = 0
    /\ seconds_to_sleep = 0
    /\ timer_state = "none"
    /\ its_value = 0
    /\ alarm_registered = FALSE
    /\ alarm_pending = FALSE
    /\ now = 0
    /\ missed_by = 0
    /\ outcome = "none"
    /\ suspended = FALSE
    /\ timers_created = FALSE
    /\ early_wakeup = FALSE
    /\ clock_was_read = FALSE
    /\ interrupted_at = "never"

\* the wait scheduler
Init == WaitInit /\ CalcIdle /\ SteadyIdle
Next ==
    \/ SubcommandsWait /\ UNCHANGED << calcVars, steadyVars >>
    \/ UtilsWait /\ UNCHANGED << calcVars, steadyVars >>
    \/ RegisterAlarm /\ UNCHANGED << calcVars, steadyVars >>
    \/ LoopHead /\ UNCHANGED << calcVars, steadyVars >>
    \/ TimerCreate /\ UNCHANGED << calcVars, steadyVars >>
    \/ ClockGettime /\ UNCHANGED << calcVars, steadyVars >>
    \/ TimerSettime /\ UNCHANGED << calcVars, steadyVars >>
    \/ Recv /\ UNCHANGED << calcVars, steadyVars >>
    \/ DisarmTimer /\ UNCHANGED << calcVars, steadyVars >>
    \/ CheckMissed /\ UNCHANGED << calcVars, steadyVars >>
    \/ Tick /\ UNCHANGED << calcVars, steadyVars >>
    \/ ClockJump /\ UNCHANGED << calcVars, steadyVars >>
    \/ TimerFire /\ UNCHANGED << calcVars, steadyVars >>
    \/ SpuriousAlarm /\ UNCHANGED << calcVars, steadyVars >>
    \/ Interrupt /\ UNCHANGED << calcVars, steadyVars >>
Spec == Init /\ [][Next]_vars

\* the solar calculations
InitCalc == CalcInit /\ WaitIdle /\ SteadyIdle
NextCalc ==
    \/ New /\ UNCHANGED << waitVars, steadyVars >>
    \/ EventTime /\ UNCHANGED << waitVars, steadyVars >>
    \/ SolarNoon /\ UNCHANGED << waitVars, steadyVars >>
    \/ DayFractionToDatetime /\ UNCHANGED << waitVars, steadyVars >>
    \/ DayLength /\ UNCHANGED << waitVars, steadyVars >>
SpecCalc == InitCalc /\ [][NextCalc]_vars


\* the pure functions, called on their own
FnIdle ==
    /\ date = 0
    /\ utc_offset = 0
    /\ latitude = 0
    /\ longitude = 0
    /\ solar_declination = 0
    /\ solar_noon_fraction = 0
    /\ calc_pc = "fn"
    /\ query = NoQuery
    /\ result = NoResult
InitFn == FnIdle /\ WaitIdle /\ SteadyIdle
NextFn ==
    \/ DayFractionToTime /\ UNCHANGED << waitVars, steadyVars >>
    \/ WaitUntil /\ UNCHANGED << waitVars, steadyVars >>
    \/ ToJulianDate /\ UNCHANGED << waitVars, steadyVars >>
    \/ CommandLine /\ UNCHANGED << waitVars, steadyVars >>
    \/ NewEvent /\ UNCHANGED << waitVars, steadyVars >>
    \/ ParseEvent /\ UNCHANGED << waitVars, steadyVars >>
    \/ ScalarNew /\ UNCHANGED << waitVars, steadyVars >>
SpecFn == InitFn /\ [][NextFn]_vars


\* the wait under a steady clock, every enabled step eventually taken
InitSteady == WaitInit /\ CalcIdle /\ SteadyIdle
NextSteady ==
    \/ Steady(SubcommandsWait) /\ UNCHANGED calcVars
    \/ Steady(UtilsWait) /\ UNCHANGED calcVars
    \/ Steady(RegisterAlarm) /\ UNCHANGED calcVars
    \/ Steady(LoopHead) /\ UNCHANGED calcVars
    \/ Steady(TimerCreate) /\ UNCHANGED calcVars
    \/ Steady(ClockGettime) /\ UNCHANGED calcVars
    \/ Steady(TimerSettime) /\ UNCHANGED calcVars
    \/ Steady(Recv) /\ UNCHANGED calcVars
    \/ Steady(DisarmTimer) /\ UNCHANGED calcVars
    \/ Steady(CheckMissed) /\ UNCHANGED calcVars
    \/ SteadyTick /\ UNCHANGED calcVars
    \/ SteadyFire /\ UNCHANGED calcVars
SpecSteady == InitSteady /\ [][NextSteady]_vars /\ WF_vars(NextSteady)

\* ----------------------------------------------------------------- claims

\* C1: when utils::wait reads the clock and wait_until is strictly before
\* it, the wait fails with PastEvent and has armed no timer, registered no
\* listener and never suspended; when wait_until is equal to or after the
\* clock reading, the outcome is not PastEvent.
C1_PastEventIffStrictlyBefore ==
    clock_was_read =>
        /\ (wait_until < local_time) =>
              /\ outcome = "PastEvent"
              /\ pc = "done"
              /\ ~timers_created /\ ~suspended /\ ~alarm_registered
              /\ timer_state = "none"
        /\ (wait_until >= local_time) => outcome # "PastEvent"

\* C1 happens: the wake time was one tick (less than a second) before the
\* clock reading and the wait ended with PastEvent.
C1_Witness ==
    /\ outcome = "PastEvent"
    /\ local_time - wait_until = 1

\* sleep_until has returned Ok to subcommands::wait
SleepReturnedOk ==
    \/ pc = "check_missed"
    \/ pc = "done" /\ outcome \in {"Ok", "EventMissed"}

\* C2: whatever the interleaving of clock readings, early or spurious
\* alarms and forward jumps of the clock, sleep_until has returned Ok only
\* in states where the wall clock is at or past wait_until; while the clock
\* is before wait_until a received alarm leaves the loop running.
C2_ReturnsOnlyAtOrPastTarget ==
    SleepReturnedOk => clock >= wait_until

\* C2 happens: an alarm was received before the target, and sleep_until
\* went round the loop and has now returned Ok.
C2_Witness ==
    /\ pc = "check_missed"
    /\ early_wakeup

\* C3 as stated: with run_missed_task false, the wait that woke fails with
\* EventMissed exactly when the clock reading is more than 30 seconds past
\* wait_until, at the clock's own resolution.
C3_MissedIffOverrunExceedsTolerance ==
    (pc = "done" /\ ~run_missed_task /\ outcome \in {"Ok", "EventMissed"}) =>
        ((outcome = "EventMissed") <=> (now - wait_until > Tolerance * Res))

C5_TimerExpiryNeverPastTarget ==
    (timer_state = "armed" /\ seconds_to_sleep > 0) => its_value <= wait_until

C7_AbsentEventFailsAtOnce ==
    event_time = None =>
        /\ ~clock_was_read
        /\ ~alarm_registered
        /\ ~timers_created
        /\ ~suspended
        /\ timer_state = "none"
        /\ pc \in {"start", "done", "killed"}
        /\ pc = "done" => outcome = "NonOccurringEvent"

\* C7 happens: the event does not occur and the wait has ended.
C7_Witness ==
    /\ event_time = None
    /\ pc = "done"
    /\ outcome = "NonOccurringEvent"

\* ------------------------------------------------- the solar calculations
\* the time of day of a fraction inside [0,1), on the given calendar day
TimeOfDay(day, f) ==
    DateTime(day, f \div (3600 * Res), (f % (3600 * Res)) \div (60 * Res),
             (f % (60 * Res)) \div Res)

\* C8: day_fraction_to_datetime of a fraction d in (-1,0) is the previous
\* calendar day at the time of day of d+1, of a fraction in [1,2) the next
\* calendar day at the time of day of d-1, and of a fraction in [0,1) a time
\* on the input date
C8_RolloverKeepsTimeOfDay ==
    query.kind = "day_fraction" =>
        LET d == query.day_fraction
        IN /\ (-DayTicks < d /\ d < 0) =>
                  result.time = Some(TimeOfDay(date - 1, d + DayTicks))
           /\ (DayTicks <= d /\ d < 2 * DayTicks) =>
                  result.time = Some(TimeOfDay(date + 1, d - DayTicks))
           /\ (0 <= d /\ d < DayTicks) =>
                  /\ result.time # None
                  /\ Unwrap(result.time).day = date

\* an event_time call returned a time for a fixed-elevation event, and the
\* solar noon of the same context resolves too
ResolvedFixedEvent ==
    /\ query.kind = "event_time"
    /\ from_event_name(query.event).kind = "Fixed"
    /\ result.time # None
    /\ solar_noon(date, solar_noon_fraction).time # None

\* C9: every occurring ascending event time is at or before the solar noon
\* time of the same context and every occurring descending one is at or after
\* it, sunrise and sunset strictly, day-rollover corrections included
C9_AscendingBeforeNoonDescendingAfter ==
    ResolvedFixedEvent =>
        LET event == from_event_name(query.event)
            t     == Instant(Unwrap(result.time))
            noon  == Instant(Unwrap(solar_noon(date, solar_noon_fraction).time))
        IN /\ event.solar_direction = Ascending => t <= noon
           /\ event.solar_direction = Descending => t >= noon
           /\ query.event.name = "Sunrise" => t < noon
           /\ query.event.name = "Sunset" => t > noon

\* C10: for every accepted UTC offset and valid coordinate, the day fraction
\* of an occurring event or of solar noon is less than one day outside [0,1),
\* and the call returns a time of day without failing
C10_EventTimeNeverFails ==
    query.kind \in {"event_time", "solar_noon"} =>
        /\ ~result.panic
        /\ -DayTicks < result.day_fraction
        /\ result.day_fraction < 2 * DayTicks

\* ------------------------------------------------------ the pure functions
\* floor(f x 86400) for a float f inside [0,1), in exact arithmetic
FloorSeconds(f) ==
    LET h  == (f * 24) \div One
        r1 == (f * 24) % One
        m  == (r1 * 60) \div One
        r2 == (r1 * 60) % One
    IN h * 3600 + m * 60 + (r2 * 60) \div One

\* C11: for a day fraction f in [0,1) the time of day returned is
\* floor(f x 86400) seconds after midnight: never later than the exact
\* instant and less than one second earlier than it.
C11_TruncatedToTheSecond ==
    query.kind = "hms" =>
        result.hour * 3600 + result.minute * 60 + result.second
            = FloorSeconds(query.day_fraction)

\* the refraction-corrected solar elevation at solar noon (hour angle 0), in
\* thousandths of a degree
NoonElevation ==
    LET e == solar_elevation_angle(latitude, solar_declination, 0)
    IN e + Quot(atmospheric_refraction(e) * 5, 18)

\* C12: day_length is sunset minus sunrise when both resolve to concrete
\* times; when either is absent it is exactly 24 hours if the
\* refraction-corrected solar elevation at solar noon is at least 0.833
\* degrees and exactly 0 hours otherwise.
C12_DayLength ==
    query.kind = "day_length" =>
        LET sunrise == event_time_of(date, latitude, solar_declination,
                           solar_noon_fraction,
                           from_event_name([name |-> "Sunrise", altitude |-> 0]))
            sunset  == event_time_of(date, latitude, solar_declination,
                           solar_noon_fraction,
                           from_event_name([name |-> "Sunset", altitude |-> 0]))
        IN /\ (sunrise.time # None /\ sunset.time # None) =>
                  /\ ~result.panic
                  /\ result.length = Instant(Unwrap(sunset.time))
                                         - Instant(Unwrap(sunrise.time))
           /\ (~sunrise.panic /\ ~sunset.panic
                  /\ (sunrise.time = None \/ sunset.time = None)) =>
                  /\ ~result.panic
                  /\ result.length = IF NoonElevation >= SunriseElevation
                                     THEN 24 * 3600 ELSE 0

\* C13: event_time of a fixed-elevation event returns an absent time exactly
\* when the argument of the arccos lies outside [-1, 1], and a concrete time
\* otherwise, never an error.
C13_AbsentIffOutsideDomain ==
    (query.kind = "event_time" /\ from_event_name(query.event).kind = "Fixed") =>
        LET x == AcosArgument(latitude, solar_declination,
                     from_event_name(query.event).degrees_below_horizon)
        IN /\ ~result.panic
           /\ (result.time = None) <=> (x > 10000 \/ x < -10000)

\* C14: the wake time of a wait is the event time plus the signed offset: the
\* same number of seconds away, earlier for a negative offset and later for
\* a positive one, also when the sum falls on another calendar day.
C14_WakeTimeIsEventPlusOffset ==
    query.kind = "wait_until" =>
        /\ Instant(result) = Instant(query.datetime) + query.offset
        /\ query.offset < 0 => Instant(result) < Instant(query.datetime)
        /\ query.offset > 0 => Instant(result) > Instant(query.datetime)
        /\ result.hour \in 0..23 /\ result.minute \in 0..59
        /\ result.second \in 0..59

\* a negative offset took the wake time to the day before the event, as in
\* test_wait_with_offset
C14_Witness ==
    /\ query.kind = "wait_until"
    /\ query.offset = -45052
    /\ result.day = query.datetime.day - 1

\* ------------------------------------------------- the wait, steady clock
\* C15: a wait whose wake time is in the future when it starts, run while
\* the clock advances steadily and the alarm signals are delivered,
\* eventually returns, and returns success, with run_missed_task false too.
C15_FutureWaitSucceeds ==
    (pc = "register" /\ wait_until > local_time)
        ~> (pc = "done" /\ outcome = "Ok")

\* such a wait, without run_missed_task, has slept on a timer and returned
\* success
C15_Witness ==
    /\ pc = "done"
    /\ outcome = "Ok"
    /\ ~run_missed_task
    /\ wait_until > local_time
    /\ suspended
    /\ timers_armed >= 1

\* C16: with no spurious signals and no clock jumps, the number of timers
\* sleep_until arms during one wait stays within a small constant (here 2),
\* however finely the clock ticks.
C16_FewTimersPerWait ==
    timers_armed <= 2

\* ------------------------------------------------------ the wait: outcomes
\* the outcomes of a wait that returns
Outcomes == {"Ok", "NonOccurringEvent", "PastEvent", "EventMissed",
             "SleepError"}

\* a step taken once the outcome is determined changes nothing of the wait
OutcomeIsTerminal ==
    outcome \in Outcomes =>
        /\ outcome' = outcome
        /\ pc' = pc
        /\ timer_state' = timer_state
        /\ timers_created' = timers_created
        /\ suspended' = suspended
        /\ clock_was_read' = clock_was_read

\* C17: a wait has no outcome until it returns and then exactly one of the
\* five, and the outcome is terminal: once it is determined it never
\* changes, no timer is created or armed, the wait does not suspend again
\* and no step of it is taken again.
C17_OneTerminalOutcome ==
    /\ [](pc = "done" <=> outcome \in Outcomes)
    /\ [](pc \notin Terminal => outcome = "none")
    /\ [][OutcomeIsTerminal]_vars

\* a wait failed with EventMissed after it had slept on a timer
C17_Witness ==
    /\ pc = "done"
    /\ outcome = "EventMissed"
    /\ suspended
    /\ timers_created

\* ------------------------------------------------------ the pure functions
\* C18: to_julian_date depends only on the instant: in whatever offset the
\* timestamp is given, the Julian date is that of the same instant in UTC.
C18_JulianDateOfTheInstant ==
    query.kind = "julian" =>
        result = to_julian_date(Calendar[query.run], query.day,
                                query.utc_seconds, 0)

CustomWithoutAltitude ==
    /\ query.kind \in {"command_line", "event_new"}
    /\ query.event_name \in {"CustomAM", "CustomPM", "custom_am", "custom_pm"}
    /\ query.custom_altitude = None

NonCustomWithAltitude ==
    /\ query.kind \in {"command_line", "event_new"}
    /\ query.event_name \notin {"CustomAM", "CustomPM", "custom_am", "custom_pm"}
    /\ query.custom_altitude # None

\* C20: for a name that is not custom a supplied altitude is ignored: the
\* event built (elevation and direction) and the event time resolved are
\* those obtained with no altitude.
C20_AltitudeIgnoredUnlessCustom ==
    NonCustomWithAltitude =>
        /\ query.kind = "command_line" =>
               result = Run(query.day, query.latitude, query.event_name, None)
        /\ query.kind = "event_new" =>
               result = EventNew(Chars[query.event_name], None)
C20_Witness ==
    /\ NonCustomWithAltitude
    /\ query.kind = "command_line"
    /\ query.event_name = "Sunrise"
    /\ query.custom_altitude = Some(8000)
    /\ result.outcome = "Ok"
    /\ Unwrap(result.event).degrees_below_horizon = 833
    /\ result.event_time.time # None

\* the catalogue of the specification: degrees below the horizon, in
\* thousandths of a degree, of the eight fixed names
CatalogueElevation(name) ==
    CASE name \in {"Sunrise", "Sunset", "sunrise", "sunset"} -> 833
      [] name \in {"CivilDawn", "CivilDusk", "civil_dawn", "civil_dusk"} -> 6000
      [] name \in {"NauticalDawn", "NauticalDusk", "nautical_dawn",
                   "nautical_dusk"} -> 12000
      [] name \in {"AstronomicalDawn", "AstronomicalDusk", "astronomical_dawn",
                   "astronomical_dusk"} -> 18000
AscendingNames == {"Sunrise", "CivilDawn", "NauticalDawn", "AstronomicalDawn",
                   "CustomAM", "sunrise", "civil_dawn", "nautical_dawn",
                   "astronomical_dawn", "custom_am"}
DescendingNames == {"Sunset", "CivilDusk", "NauticalDusk", "AstronomicalDusk",
                    "CustomPM", "sunset", "civil_dusk", "nautical_dusk",
                    "astronomical_dusk", "custom_pm"}
CustomNames == {"CustomAM", "CustomPM", "custom_am", "custom_pm"}
EventBuilt ==
    /\ query.kind \in {"command_line", "event_new"}
    /\ result.outcome = "Ok"

\* C21: the event built from a name has the catalogue's elevation and
\* direction: 0.833, 6, 12 and 18 degrees for sunrise/sunset and the civil,
\* nautical and astronomical pairs, the caller's altitude for the custom
\* pair; sunrise, the dawns and custom_am ascend (AM), sunset, the dusks and
\* custom_pm descend (PM); solar noon alone is of variable elevation.
C21_EventCatalogue ==
    EventBuilt =>
        LET name == query.event_name
            event == Unwrap(result.event)
        IN /\ name \in AscendingNames \cup DescendingNames =>
                 event.degrees_below_horizon =
                     IF name \in CustomNames
                     THEN Unwrap(query.custom_altitude)
                     ELSE CatalogueElevation(name)
           /\ query.kind = "command_line" =>
                 /\ name \in AscendingNames =>
                        event.kind = "Fixed" /\ event.solar_direction = Ascending
                 /\ name \in DescendingNames =>
                        event.kind = "Fixed" /\ event.solar_direction = Descending
                 /\ event.kind = "Variable" <=> name = "SolarNoon"
           /\ query.kind = "event_new" =>
                 /\ name \in AscendingNames => event.time_of_day = "AM"
                 /\ name \in DescendingNames => event.time_of_day = "PM"
                 /\ event.variant = "SolarNoon" <=> name = "solar_noon"
C21_Witness ==
    /\ EventBuilt
    /\ query.kind = "command_line"
    /\ query.event_name = "CustomPM"
    /\ query.custom_altitude = Some(-6000)
    /\ Unwrap(result.event).degrees_below_horizon = -6000
    /\ Unwrap(result.event).solar_direction = Descending

\* the eleven names of the vocabulary, as strings of characters
Vocabulary == {Chars[n] : n \in EventStrings \ {"moonrise"}}
\* s with the blanks and tabs at its two ends removed and its capitals
\* replaced by small letters is the name v
SpellsName(s, v) ==
    \E before, after \in 0..Len(s) :
        /\ before + Len(v) + after = Len(s)
        /\ \A i \in 1..Len(s) :
              IF i <= before \/ i > before + Len(v)
              THEN s[i] \in Whitespace
              ELSE \/ s[i] = v[i - before]
                   \/ \E k \in 1..26 : s[i] = Capitals[k] /\ v[i - before] = Alphabet[k]

\* C22 as stated: every string that is not one of the eleven names is
\* rejected with InvalidEvent and gives no event.
C22_OutsideVocabularyRejected ==
    (query.kind = "parse_event" /\ query.event \notin Vocabulary) =>
        result.outcome = "InvalidEvent" /\ result.event = None

\* C22, amended: every string that is not one of the eleven names once its
\* surrounding whitespace is removed and its letters are put in lower case is
\* rejected with InvalidEvent and gives no event.
C22_UnknownNameRejected ==
    (query.kind = "parse_event"
     /\ \A v \in Vocabulary : ~SpellsName(query.event, v)) =>
        result.outcome = "InvalidEvent" /\ result.event = None
C22_Witness ==
    /\ query.kind = "parse_event"
    /\ query.event = << "s", "u", "n", " ", "r", "i", "s", "e" >>
    /\ result.outcome = "InvalidEvent"

\* the magnitude, in thousandths of a degree, a scalar of the type may have
ScalarLimit(type) == IF type = "Longitude" THEN 180000 ELSE 90000

\* C23: Latitude::new, Longitude::new and Altitude::new succeed exactly on
\* the inclusive range (-90..90, -180..180, -90..90 degrees) and keep the
\* value as given; a value outside the range gives an error and no value,
\* never a value moved into the range.
C23_ScalarsValidatedNotClamped ==
    query.kind = "scalar_new" =>
        LET v == query.value
            in_range == /\ v.class = "finite"
                        /\ -ScalarLimit(query.type) <= v.value
                        /\ v.value <= ScalarLimit(query.type)
        IN /\ result.outcome = "Ok" <=> in_range
           /\ in_range => result.value = Some(v)
           /\ ~in_range => result.outcome = "Err" /\ result.value = None
C23_Witness ==
    /\ query.kind = "scalar_new"
    /\ query.type = "Latitude"
    /\ query.value = Finite(90001)
    /\ result.outcome = "Err"

\* ------------------------------------------- the calculation context
\* C24: solar noon is present for every valid input (solar_noon() and
\* event_time of the solar-noon event return a time, never nothing and never
\* a failure), and the time is the date-time conversion of the context's
\* solar-noon day fraction, with no hour-angle term.
C24_SolarNoonAlwaysPresent ==
    (\/ query.kind = "solar_noon"
     \/ query.kind = "event_time" /\ query.event.name = "SolarNoon") =>
        /\ ~result.panic
        /\ result.time # None
        /\ result.day_fraction = solar_noon_fraction
        /\ result.time = day_fraction_to_datetime(date, solar_noon_fraction).time

\* the calculation context, and its value at construction
Context == << date, utc_offset, latitude, longitude, solar_declination,
              solar_noon_fraction >>
Constructed ==
    /\ solar_declination = SolarTable[date].solar_declination
    /\ solar_noon_fraction =
           SolarNoonFraction(longitude, SolarTable[date].equation_of_time,
                             utc_offset)
\* a step of a constructed context leaves the context as it is
ContextKept == calc_pc = "ready" => Context' = Context
\* the answer of the context to the query
Answer ==
    CASE query.kind = "event_time" ->
             event_time_of(date, latitude, solar_declination,
                           solar_noon_fraction, from_event_name(query.event))
      [] query.kind = "solar_noon" -> solar_noon(date, solar_noon_fraction)
      [] query.kind = "day_length" ->
             LET r == day_length(date, latitude, longitude, utc_offset,
                                 solar_declination,
                                 SolarTable[date].equation_of_time,
                                 solar_noon_fraction)
             IN [panic |-> r.panic, time |-> None, day_fraction |-> 0,
                 length |-> r.length]

TimeOf(e) ==
    event_time_of(date, latitude, solar_declination, solar_noon_fraction,
                  from_event_name(e))

\* C26: in one context, of two fixed-elevation events that both occur, the
\* one further below the horizon is no later when they ascend and no earlier
\* when they descend: astronomical dawn <= nautical dawn <= civil dawn <=
\* sunrise and sunset <= civil dusk <= nautical dusk <= astronomical dusk.
C26_LowerSunEarlierDawnLaterDusk ==
    (/\ query.kind = "event_time"
     /\ from_event_name(query.event).kind = "Fixed"
     /\ result.time # None) =>
        \A f \in EventNames :
            LET this  == from_event_name(query.event)
                other == from_event_name(f)
            IN (/\ other.kind = "Fixed"
                /\ other.solar_direction = this.solar_direction
                /\ other.degrees_below_horizon >= this.degrees_below_horizon
                /\ TimeOf(f).time # None) =>
                   IF this.solar_direction = Ascending
                   THEN Instant(Unwrap(TimeOf(f).time)) <= Instant(Unwrap(result.time))
                   ELSE Instant(Unwrap(TimeOf(f).time)) >= Instant(Unwrap(result.time))

\* ------------------------------------------------- the wait: alarm and timer
\* C27: the SIGALRM listener is registered before the first timer is armed:
\* whenever a timer exists the listener is registered, an expiry, however
\* soon after the arming, is held for the recv (sleep_until is never waiting
\* on an expired timer without a pending alarm), and the wait in recv always
\* ends.
C27_ListenerBeforeTimer ==
    /\ [](timer_state # "none" => alarm_registered)
    /\ []((pc = "recv" /\ timer_state = "expired") => alarm_pending)
    /\ (pc = "recv") ~> (pc = "disarm")
\* the timer was armed for zero seconds and expired in the tick it was armed
\* in, and the alarm is held for the recv
C27_Witness ==
    /\ pc = "recv"
    /\ seconds_to_sleep = 0
    /\ timer_state = "expired"
    /\ its_value = clock
    /\ alarm_pending

\* a step in which arm_timer fails after it has created the timer
ArmTimerFails ==
    /\ pc \in {"clock_gettime", "timer_settime"}
    /\ outcome' = "SleepError"
ArmFailureDeletes == ArmTimerFails => timer_state' = "none"
ArmFailureTriesToDelete == ArmTimerFails => timer_state' \in {"none", "leaked"}

\* C28 as stated: sleep_until holds at most one timer and leaves none behind:
\* the timer of an iteration is deleted before the next is created, no timer
\* exists once sleep_until has returned Ok, and when arm_timer fails after
\* creating the timer the timer is deleted before the error is returned.
C28_NoTimerLeftBehind ==
    /\ [](pc \in {"loop", "timer_create"} => timer_state = "none")
    /\ [](SleepReturnedOk => timer_state = "none")
    /\ [][ArmFailureDeletes]_vars

\* C28, amended: the timer of an iteration is deleted before the next is
\* created and no timer exists once sleep_until has returned Ok; when
\* arm_timer fails after creating the timer, timer_delete is called before
\* the error is returned and the timer is gone, except when timer_delete
\* itself fails: then the timer stays behind.
C28_NoTimerLeftUnlessDeleteFails ==
    /\ [](pc \in {"loop", "timer_create"} => timer_state = "none")
    /\ [](SleepReturnedOk => timer_state = "none")
    /\ [][ArmFailureTriesToDelete]_vars
\* arm_timer failed in the first iteration after it had created the timer,
\* and the timer was deleted before the error came back
C28_Witness ==
    /\ pc = "done"
    /\ outcome = "SleepError"
    /\ timers_created
    /\ ~suspended
    /\ timer_state = "none"

\* C29: for every valid coordinate, date and UTC offset, day_length returns
\* a length between 0 and 86400 seconds inclusive, also when sunrise or
\* sunset falls on the previous or the next calendar day.
C29_DayLengthWithinOneDay ==
    query.kind = "day_length" =>
        /\ ~result.panic
        /\ 0 <= result.length
        /\ result.length <= SecondsPerDay

\* the other event of the pair: the same degrees below the horizon, the
\* other direction
Opposite(e) ==
    CASE e.name = "Sunrise" -> [e EXCEPT !.name = "Sunset"]
      [] e.name = "Sunset" -> [e EXCEPT !.name = "Sunrise"]
      [] e.name = "CivilDawn" -> [e EXCEPT !.name = "CivilDusk"]
      [] e.name = "CivilDusk" -> [e EXCEPT !.name = "CivilDawn"]
      [] e.name = "NauticalDawn" -> [e EXCEPT !.name = "NauticalDusk"]
      [] e.name = "NauticalDusk" -> [e EXCEPT !.name = "NauticalDawn"]
      [] e.name = "AstronomicalDawn" -> [e EXCEPT !.name = "AstronomicalDusk"]
      [] e.name = "AstronomicalDusk" -> [e EXCEPT !.name = "AstronomicalDawn"]
      [] e.name = "CustomAM" -> [e EXCEPT !.name = "CustomPM"]
      [] e.name = "CustomPM" -> [e EXCEPT !.name = "CustomAM"]

\* C30: in one context and for one degrees-below-horizon value the ascending
\* and the descending event are both present or both absent; sunrise is
\* absent exactly when sunset is, and day_length never sees one without the
\* other.
C30_PairPresentOrAbsentTogether ==
    (query.kind = "event_time" /\ from_event_name(query.event).kind = "Fixed") =>
        /\ ~result.panic
        /\ ~TimeOf(Opposite(query.event)).panic
        /\ (result.time = None) <=> (TimeOf(Opposite(query.event)).time = None)

====
